---- MODULE Spec2Model ----
(***************************************************************************)
(* venvr: the builder of a combined Python/R virtual environment            *)
(* (src/src/venvr/__init__.py).  VenvrBuilder extends the standard          *)
(* library's venv.EnvBuilder; main() builds one environment per directory. *)
(*                                                                         *)
(* Files are sequences of atoms.  In pyvenv.cfg an atom is a fragment of   *)
(* text or "NL" (the newline character); in the activation script an atom  *)
(* is one word of the script.                                              *)
(***************************************************************************)
EXTENDS Naturals, Sequences, FiniteSets

\* ------------------------------------------------------------------ bounds
\* Target directories given to one invocation of main().
MaxDirs == 2

Dirs == {"d1", "d2"}

VARIABLES fs, rinst, pc, opts, dirs, todo, cur, ctx, snap, steps, created,
          builders, rc, err, outcome

vars == <<fs, rinst, pc, opts, dirs, todo, cur, ctx, snap, steps, created,
          builders, rc, err, outcome>>

\* ------------------------------------------------------------ text helpers
NL == "NL"

NoFile == [ex |-> FALSE, txt |-> <<>>]

File(t) == [ex |-> TRUE, txt |-> t]

\* str.join: the parts with sep between them.
RECURSIVE Join(_, _)
Join(parts, sep) ==
    IF Len(parts) = 0 THEN <<>>
    ELSE IF Len(parts) = 1 THEN <<parts[1]>>
    ELSE <<parts[1], sep>> \o Join(Tail(parts), sep)

\* str.split(sep) of a text whose atoms are either sep or a part.
RECURSIVE Split(_, _)
Split(text, sep) ==
    IF Len(text) = 0 THEN <<>>
    ELSE IF Len(text) = 1 THEN <<text[1]>>
    ELSE IF text[2] = sep THEN <<text[1]>> \o Split(SubSeq(text, 3, Len(text)), sep)
    ELSE <<text[1]>> \o Split(Tail(text), sep)

\* The number of lines of a text: one per newline, and one more for a last
\* line that no newline ends.
CountNL(text) == Cardinality({i \in 1..Len(text) : text[i] = NL})

NumLines(text) ==
    CountNL(text) + (IF Len(text) > 0 /\ text[Len(text)] # NL THEN 1 ELSE 0)

\* The i-th line of a text (without its newline), i in 1..NumLines(text).
RECURSIVE LineAt(_, _)
LineAt(text, i) ==
    LET ends == {k \in 1..Len(text) : text[k] = NL}
        stop == IF ends = {} THEN Len(text) + 1
                ELSE CHOOSE k \in ends : \A j \in ends : k <= j
    IN  IF i = 1 THEN SubSeq(text, 1, stop - 1)
        ELSE LineAt(SubSeq(text, stop + 1, Len(text)), i - 1)

IsPrefix(s, t) == Len(s) <= Len(t) /\ SubSeq(t, 1, Len(s)) = s

\* file.seek(0); file.write(new) on a file opened "r+": the new text is
\* written over the old one from the start, and nothing is truncated.
Overwrite(old, new) ==
    IF Len(new) >= Len(old) THEN new
    ELSE new \o SubSeq(old, Len(new) + 1, Len(old))

\* text.replace(token, value), one word at a time.
Replace(text, token, value) ==
    [i \in 1..Len(text) |-> IF text[i] = token THEN value ELSE text[i]]

\* The number of definitions of a shell function named name: the word
\* followed by "()".
Defs(text, name) ==
    Cardinality({i \in 1..Len(text) :
                   /\ text[i] = name
                   /\ i < Len(text)
                   /\ text[i + 1] = "()"})


\* ------------------------------------------------- the R installation found
\* What the host system answers to get_r_info(): whether "R RHOME" runs,
\* whether <R_HOME>/bin holds R and Rscript, and the text Rscript prints for
\* cat(R.version$major, R.version$minor, sep=".").
RInstalls ==
    { [rhome |-> TRUE,  exes |-> TRUE,  rv |-> <<"4", ".", "3", ".", "1">>],
      [rhome |-> TRUE,  exes |-> TRUE,  rv |-> <<"4", ".", "3">>],
      [rhome |-> TRUE,  exes |-> FALSE, rv |-> <<"4", ".", "3", ".", "1">>],
      [rhome |-> FALSE, exes |-> FALSE, rv |-> <<>>] }

Digits == {"0", "1", "2", "3", "4"}

\* re.match(r"\d+\.\d+\..+", rv) is not None
VersionMatches(rv) ==
    /\ Len(rv) >= 5
    /\ rv[1] \in Digits
    /\ rv[2] = "."
    /\ rv[3] \in Digits
    /\ rv[4] = "."
    /\ rv[5] # NL

R_HOME == "/usr/lib/R"

\* get_r_info(): the descriptor, or the error raised.
get_r_info(inst) ==
    IF ~inst.rhome
    THEN [ok |-> FALSE, error |-> "CalledProcessError"]
    ELSE IF ~inst.exes
    THEN [ok |-> FALSE, error |-> "ValueError: no R executable"]
    ELSE IF ~VersionMatches(inst.rv)
    THEN [ok |-> FALSE, error |-> "ValueError: invalid R version"]
    ELSE [ok |-> TRUE,
          R_HOME |-> R_HOME,
          R |-> <<R_HOME, "bin", "R">>,
          Rscript |-> <<R_HOME, "bin", "Rscript">>,
          version |-> Split(inst.rv, ".")]

\* os.path.basename
basename(path) == path[Len(path)]

\* ------------------------------------------------------------- the options
SystemSite == {"none", "python", "r", "both"}

Options == [convert : BOOLEAN, clear : BOOLEAN, upgrade : BOOLEAN,
            system_site : SystemSite]

NoOptions == [convert |-> FALSE, clear |-> FALSE, upgrade |-> FALSE,
              system_site |-> "unset"]

system_site_packages(o) == o.system_site \in {"both", "python"}

r_system_site_packages(o) == o.system_site \in {"both", "r"}

\* The lists of target directories of one invocation.
DirLists == UNION {[1..n -> Dirs] : n \in 1..MaxDirs}

\* ----------------------------------------------------------- the file system
LibKinds == {"absent", "dir", "file", "link_dir", "link_file", "link_dangling"}

\* os.path.exists follows symbolic links: a dangling link does not exist.
exists(kind) == kind \in {"dir", "file", "link_dir", "link_file"}

islink(kind) == kind \in {"link_dir", "link_file", "link_dangling"}

isfile(kind) == kind \in {"file", "link_file"}

\* The primary runtime's activation script template and the configuration
\* the host builder writes.
PyTemplate == <<"deactivate", "()", "PY_BODY", "deactivate", "nondestructive",
                "__VENV_DIR__", "deactivate_custom">>

\* scripts/common/activate of this package: the secondary runtime's script.
RTemplate == <<"deactivate", "()", "R_BODY", "__VENV_DIR__",
               "__VENVR_SYSTEM_PACKAGES__", "__VENVR_R_HOME__",
               "__VENVR_PY_EXEC__", "__VENVR_LIB_NAME__">>

HostCfg(incl) ==
    <<"home = /usr/bin", NL,
      "include-system-site-packages = ", incl, NL,
      "version = 3.11.6", NL>>

\* EnvBuilder.replace_variables
HostReplaceVariables(text, d) == Replace(text, "__VENV_DIR__", d)

Absent ==
    [root |-> FALSE, dirs |-> FALSE, cfg |-> NoFile, python |-> FALSE,
     pkgs |-> FALSE, libpath |-> "absent", rpkgs |-> FALSE, rbin |-> {},
     activate |-> NoFile]

\* A Python virtual environment as python -m venv leaves it, with packages
\* installed by its user, the configuration text cfg and, at the R library
\* path, an entry of kind k.
PyVenv(d, k, cfg) ==
    [root |-> TRUE, dirs |-> TRUE, cfg |-> File(cfg),
     python |-> TRUE, pkgs |-> TRUE, libpath |-> k, rpkgs |-> FALSE,
     rbin |-> {}, activate |-> File(HostReplaceVariables(PyTemplate, d))]

\* A configuration edited by hand: its last line has no newline.
EditedCfg == SubSeq(HostCfg("false"), 1, Len(HostCfg("false")) - 1)

\* ------------------------------------------------------ pieces of the steps
\* A faulty variant: only --convert-to-venvr is checked against --clear.
ConvertClearOnly(o) == o.convert /\ o.clear

\* main(): the two pairs of options that cannot be given together.
ConflictingOptions(o) == (o.convert /\ o.clear) \/ (o.upgrade /\ o.clear)

\* VenvrBuilder.create: a directory to convert must hold pyvenv.cfg.
LooksLikeVenv(f) == f.cfg.ex

\* EnvBuilder.clear_directory: every entry of the environment directory goes.
ClearDirectory(f) == [Absent EXCEPT !.root = TRUE]

\* The three lines create_configuration appends; the first write starts with
\* a newline.
RConfigLines(c, o) ==
    <<NL, "R-home = ", c.r_home, NL>>
    \o <<"R-include-system-packages = ",
         IF r_system_site_packages(o) THEN "true" ELSE "false", NL>>
    \o <<"R-version = ">> \o Join(c.r_version, ".") \o <<NL>>

\* A faulty variant: the file opened with "w", which truncates it.
TruncatingRConfig(cfg, c, o) == File(RConfigLines(c, o))

\* open(cfg_path, "a") and the three writes.
AppendRConfig(cfg, c, o) == File(cfg.txt \o RConfigLines(c, o))

\* A faulty variant: the test for a symbolic link left out.
EnsureLibDirNoLinkCheck(kind) ==
    IF ~exists(kind)
    THEN IF kind = "absent"
         THEN [ok |-> TRUE, kind |-> "dir", error |-> ""]
         ELSE [ok |-> FALSE, kind |-> kind, error |-> "FileExistsError"]
    ELSE IF kind = "file"
    THEN [ok |-> FALSE, kind |-> kind,
          error |-> "ValueError: unable to create directory"]
    ELSE [ok |-> TRUE, kind |-> kind, error |-> ""]

\* A faulty variant: os.makedirs called whether or not the path exists.
EnsureLibDirAlwaysMakedirs(kind) ==
    IF kind = "absent"
    THEN [ok |-> TRUE, kind |-> "dir", error |-> ""]
    ELSE [ok |-> FALSE, kind |-> kind, error |-> "FileExistsError"]

\* post_setup, the library directory: the kind of entry the path holds
\* afterwards, or the error raised.
EnsureLibDir(kind) ==
    IF ~exists(kind)
    THEN IF kind = "absent"
         THEN [ok |-> TRUE, kind |-> "dir", error |-> ""]
         ELSE [ok |-> FALSE, kind |-> kind, error |-> "FileExistsError"]
    ELSE IF islink(kind) \/ isfile(kind)
    THEN [ok |-> FALSE, kind |-> kind,
          error |-> "ValueError: unable to create directory"]
    ELSE [ok |-> TRUE, kind |-> kind, error |-> ""]

\* re.sub(r"\bdeactivate\b", "deactivate_py", py_script)
RenameDeactivate(text) == Replace(text, "deactivate", "deactivate_py")

\* VenvrBuilder.replace_variables
replace_variables(text, c, o, d) ==
    LET t0 == HostReplaceVariables(text, d)
        incl == IF r_system_site_packages(o) THEN "true" ELSE "false"
        t1 == Replace(t0, "__VENVR_SYSTEM_PACKAGES__", incl)
        t2 == Replace(t1, "__VENVR_R_HOME__", c.r_home)
        t3 == Replace(t2, "__VENVR_PY_EXEC__", c.python_exe)
        t4 == Replace(t3, "__VENVR_LIB_NAME__", c.lib_name)
    IN  IF \E i \in 1..Len(t0) :
              t0[i] \in {"__VENVR_SYSTEM_PACKAGES__", "__VENVR_R_HOME__",
                         "__VENVR_PY_EXEC__", "__VENVR_LIB_NAME__"}
        THEN t4
        ELSE t0

\* post_setup, the activation script: the merged text.
ComposeScript(py_script, r_script) == RenameDeactivate(py_script) \o r_script

\* Where the build goes on after each step: VenvrBuilder.create when it
\* converts, EnvBuilder.create otherwise.
AfterPython(o) == IF o.upgrade THEN "restore" ELSE "scripts"

\* A faulty variant: a convert build that goes on with the host's lifecycle.
AfterRConfigHostLifecycle(o, c) == IF c.second THEN "done" ELSE "python"

\* A faulty variant: a convert build that skips the library directory.
AfterRConfigSkipLibDir(o, c) ==
    IF o.convert THEN "exes"
    ELSE IF c.second THEN "done"
    ELSE "python"

AfterRConfig(o, c) ==
    IF o.convert THEN "libdir"
    ELSE IF c.second THEN "done"
    ELSE "python"

AfterPostSetup(o) == IF o.convert THEN "done" ELSE "restore"

\* ---------------------------------------------------------- the first state
\* The context before ensure_directories fills it.
NoCtx ==
    [has_r |-> FALSE, r_home |-> "", r_exec |-> <<>>, rscript_exec |-> <<>>,
     r_version |-> <<>>, lib_name |-> "", python_exe |-> "",
     system_site_packages |-> FALSE, second |-> FALSE]

\* The context of a build that found R 4.3.1.
BuiltCtx ==
    [NoCtx EXCEPT !.has_r = TRUE, !.r_home = R_HOME,
                  !.r_exec = <<R_HOME, "bin", "R">>,
                  !.rscript_exec = <<R_HOME, "bin", "Rscript">>,
                  !.r_version = <<"4", "3", "1">>,
                  !.lib_name = "lib", !.python_exe = "python3"]

\* An environment an earlier run of this program created in d, with no
\* option given, and R packages installed in its library since.
VenvrEnv(d) ==
    LET o == [NoOptions EXCEPT !.system_site = "none"]
    IN  [root |-> TRUE, dirs |-> TRUE,
         cfg |-> AppendRConfig(File(HostCfg("false")), BuiltCtx, o),
         python |-> TRUE, pkgs |-> TRUE, libpath |-> "dir", rpkgs |-> TRUE,
         rbin |-> {"R", "Rscript"},
         activate |-> File(ComposeScript(
                        replace_variables(PyTemplate, NoCtx, o, d),
                        replace_variables(RTemplate, BuiltCtx, o, d)))]

\* The targets before the invocation: the first is anything a user may point
\* the program at, the second is absent or a Python virtual environment
\* whose configuration was edited.
InitFS(d) ==
    IF d = "d1"
    THEN {Absent, VenvrEnv(d)}
         \cup {PyVenv(d, k, HostCfg("false")) : k \in LibKinds \ {"dir"}}
    ELSE {Absent, PyVenv(d, "absent", EditedCfg)}

Init ==
    /\ fs \in {f \in [Dirs -> UNION {InitFS(d) : d \in Dirs}] :
                 \A d \in Dirs : f[d] \in InitFS(d)}
    /\ rinst \in RInstalls
    /\ pc = "start"
    /\ opts = NoOptions
    /\ dirs = <<>>
    /\ todo = <<>>
    /\ cur = "d1"
    /\ ctx = NoCtx
    /\ snap = fs
    /\ steps = <<>>
    /\ created = <<>>
    /\ builders = 0
    /\ rc = 1
    /\ err = ""
    /\ outcome = "none"


\* ------------------------------------------------------------- the actions
\* A faulty variant: the error of one directory caught inside the loop.
RaiseAndContinue(e) ==
    /\ pc' = "loop"
    /\ err' = e
    /\ outcome' = "failed"
    /\ UNCHANGED <<rinst, opts, dirs, todo, cur, snap, created, builders, rc>>

\* An exception leaves main(); the __main__ block prints it and exits 1.
Raise(e) ==
    /\ pc' = "exit"
    /\ err' = e
    /\ outcome' = "failed"
    /\ UNCHANGED <<rinst, opts, dirs, todo, cur, snap, created, builders, rc>>

\* The __main__ block and main() up to the construction of the builder.
main(o, ds) ==
    /\ pc = "start"
    /\ rc' = 1
    /\ opts' = o
    /\ dirs' = ds
    /\ created' = <<>>
    /\ steps' = <<>>
    /\ ctx' = NoCtx
    /\ snap' = fs
    /\ IF ConflictingOptions(o)
       THEN /\ pc' = "exit"
            /\ err' = "ValueError: conflicting options"
            /\ outcome' = "none"
            /\ builders' = 0
            /\ todo' = <<>>
       ELSE /\ pc' = "loop"
            /\ err' = ""
            /\ outcome' = "none"
            /\ builders' = 1
            /\ todo' = ds
    /\ cur' = Head(ds)
    /\ UNCHANGED <<fs, rinst>>

\* for d in options.dirs: builder.create(d)
main_loop ==
    /\ pc = "loop"
    /\ todo # <<>>
    /\ cur' = Head(todo)
    /\ todo' = Tail(todo)
    /\ created' = Append(created, Head(todo))
    /\ snap' = fs
    /\ steps' = <<>>
    /\ ctx' = [NoCtx EXCEPT !.system_site_packages = system_site_packages(opts)]
    /\ outcome' = "running"
    /\ pc' = "create"
    /\ UNCHANGED <<fs, rinst, opts, dirs, builders, rc, err>>

\* main() returns and the __main__ block sets rc = 0.
main_return ==
    /\ pc = "loop"
    /\ todo = <<>>
    /\ rc' = 0
    /\ pc' = "exit"
    /\ UNCHANGED <<fs, rinst, opts, dirs, todo, cur, ctx, snap, steps, created,
                   builders, err, outcome>>

\* A faulty variant: create without the test for pyvenv.cfg.
create_unchecked ==
    /\ pc = "create"
    /\ pc' = "ensure"
    /\ UNCHANGED <<fs, rinst, opts, dirs, todo, cur, ctx, snap, steps, created,
                   builders, rc, err, outcome>>

\* VenvrBuilder.create up to the call of ensure_directories.
create ==
    /\ pc = "create"
    /\ IF opts.convert /\ ~LooksLikeVenv(fs[cur])
       THEN /\ Raise("ValueError: not a Python virtual env")
            /\ UNCHANGED <<fs, ctx, steps>>
       ELSE /\ pc' = "ensure"
            /\ UNCHANGED <<fs, rinst, opts, dirs, todo, cur, ctx, snap, steps,
                           created, builders, rc, err, outcome>>

\* EnvBuilder.ensure_directories
ensure_directories ==
    /\ pc = "ensure"
    /\ LET f == fs[cur]
           g == IF f.root /\ opts.clear THEN ClearDirectory(f) ELSE f
       IN  fs' = [fs EXCEPT ![cur] = [g EXCEPT !.root = TRUE, !.dirs = TRUE]]
    /\ ctx' = [ctx EXCEPT !.python_exe = "python3",
                          !.system_site_packages =
                              IF opts.convert THEN @ ELSE FALSE]
    /\ steps' = Append(steps, "ensure_directories")
    /\ pc' = IF opts.convert THEN "locate" ELSE "hostcfg"
    /\ UNCHANGED <<rinst, opts, dirs, todo, cur, snap, created, builders, rc, err,
                   outcome>>

\* create_configuration, not convert: super().create_configuration(context)
host_create_configuration ==
    /\ pc = "hostcfg"
    /\ fs' = [fs EXCEPT ![cur].cfg =
                File(HostCfg(IF ctx.system_site_packages
                             THEN "true" ELSE "false"))]
    /\ steps' = Append(steps, "host_create_configuration")
    /\ pc' = "locate"
    /\ UNCHANGED <<rinst, opts, dirs, todo, cur, ctx, snap, created, builders, rc,
                   err, outcome>>

\* create_configuration: the runtime locator, unless the context has r_home.
locate ==
    /\ pc = "locate"
    /\ IF ctx.has_r
       THEN /\ pc' = "rcfg"
            /\ UNCHANGED <<fs, rinst, opts, dirs, todo, cur, ctx, snap, steps,
                           created, builders, rc, err, outcome>>
       ELSE LET info == get_r_info(rinst)
            IN  IF info.ok
                THEN /\ ctx' = [ctx EXCEPT !.has_r = TRUE,
                                           !.r_home = info.R_HOME,
                                           !.r_exec = info.R,
                                           !.rscript_exec = info.Rscript,
                                           !.r_version = info.version]
                     /\ steps' = Append(steps, "get_r_info")
                     /\ pc' = "rcfg"
                     /\ UNCHANGED <<fs, rinst, opts, dirs, todo, cur, snap, created,
                                    builders, rc, err, outcome>>
                ELSE /\ Raise(info.error)
                     /\ UNCHANGED <<fs, ctx, steps>>

\* create_configuration: the three R lines, appended.
r_configuration ==
    /\ pc = "rcfg"
    /\ fs' = [fs EXCEPT ![cur].cfg = AppendRConfig(fs[cur].cfg, ctx, opts)]
    /\ steps' = Append(steps, "r_configuration")
    /\ pc' = AfterRConfig(opts, ctx)
    /\ UNCHANGED <<rinst, opts, dirs, todo, cur, ctx, snap, created, builders, rc,
                   err, outcome>>

\* EnvBuilder.create: setup_python and the bootstrap of pip.
setup_python ==
    /\ pc = "python"
    /\ fs' = [fs EXCEPT ![cur].python = TRUE]
    /\ steps' = steps \o <<"setup_python", "setup_pip">>
    /\ pc' = AfterPython(opts)
    /\ UNCHANGED <<rinst, opts, dirs, todo, cur, ctx, snap, created, builders, rc,
                   err, outcome>>

\* EnvBuilder.setup_scripts: the primary activation script, written anew.
setup_scripts ==
    /\ pc = "scripts"
    /\ fs' = [fs EXCEPT ![cur].activate =
                File(replace_variables(PyTemplate, ctx, opts, cur))]
    /\ steps' = Append(steps, "setup_scripts")
    /\ pc' = "libdir"
    /\ UNCHANGED <<rinst, opts, dirs, todo, cur, ctx, snap, created, builders, rc,
                   err, outcome>>

\* post_setup: the library directory.
post_setup_libdir ==
    /\ pc = "libdir"
    /\ LET r == EnsureLibDir(fs[cur].libpath)
       IN  IF r.ok
           THEN /\ fs' = [fs EXCEPT ![cur].libpath = r.kind]
                /\ ctx' = [ctx EXCEPT !.lib_name = "lib"]
                /\ steps' = Append(steps, "library_dir")
                /\ pc' = "exes"
                /\ UNCHANGED <<rinst, opts, dirs, todo, cur, snap, created, builders,
                               rc, err, outcome>>
           ELSE /\ Raise(r.error)
                /\ ctx' = [ctx EXCEPT !.lib_name = "lib"]
                /\ UNCHANGED <<fs, steps>>

\* post_setup: R and Rscript into the environment's bin directory.
post_setup_executables ==
    /\ pc = "exes"
    /\ fs' = [fs EXCEPT ![cur].rbin =
                @ \cup {basename(ctx.r_exec), basename(ctx.rscript_exec)}]
    /\ steps' = Append(steps, "executables")
    /\ pc' = "activate"
    /\ UNCHANGED <<rinst, opts, dirs, todo, cur, ctx, snap, created, builders, rc,
                   err, outcome>>

\* post_setup: the activation script, merged and written back.
post_setup_scripts ==
    /\ pc = "activate"
    /\ IF fs[cur].activate.ex
       THEN /\ fs' = [fs EXCEPT ![cur].activate =
                        File(Overwrite(@.txt,
                               ComposeScript(@.txt,
                                 replace_variables(RTemplate, ctx, opts, cur))))]
            /\ steps' = Append(steps, "activation_script")
            /\ pc' = AfterPostSetup(opts)
            /\ UNCHANGED <<rinst, opts, dirs, todo, cur, ctx, snap, created, builders,
                           rc, err, outcome>>
       ELSE /\ Raise("FileNotFoundError")
            /\ UNCHANGED <<fs, ctx, steps>>

\* EnvBuilder.create, after the hooks: with system site-packages asked for,
\* the option is restored and the configuration is created a second time.
restore_system_site_packages ==
    /\ pc = "restore"
    /\ IF system_site_packages(opts)
       THEN /\ ctx' = [ctx EXCEPT !.system_site_packages = TRUE,
                                  !.second = TRUE]
            /\ pc' = "hostcfg"
       ELSE /\ ctx' = ctx
            /\ pc' = "done"
    /\ UNCHANGED <<fs, rinst, opts, dirs, todo, cur, snap, steps, created, builders,
                   rc, err, outcome>>

\* builder.create(d) returns.
create_return ==
    /\ pc = "done"
    /\ pc' = "loop"
    /\ outcome' = "ok"
    /\ UNCHANGED <<fs, rinst, opts, dirs, todo, cur, ctx, snap, steps, created,
                   builders, rc, err>>

Next ==
    \/ \E o \in Options, ds \in DirLists : main(o, ds)
    \/ main_loop
    \/ main_return
    \/ create
    \/ ensure_directories
    \/ host_create_configuration
    \/ locate
    \/ r_configuration
    \/ setup_python
    \/ setup_scripts
    \/ post_setup_libdir
    \/ post_setup_executables
    \/ post_setup_scripts
    \/ restore_system_site_packages
    \/ create_return

Spec == Init /\ [][Next]_vars


\* ---------------------------------------------------------------- the claims
\* The places of step s in the log of the current build.
Idx(s) == {i \in 1..Len(steps) : steps[i] = s}

Ran(s) == Idx(s) # {}

First(s) == CHOOSE i \in Idx(s) : \A j \in Idx(s) : i <= j

\* Step b ran only after step a had run.
Before(a, b) == Ran(b) => (Ran(a) /\ First(a) < First(b))

IsSuffix(s, t) ==
    Len(s) <= Len(t) /\ SubSeq(t, Len(t) - Len(s) + 1, Len(t)) = s

HostSteps ==
    {"ensure_directories", "host_create_configuration", "setup_python",
     "setup_pip", "setup_scripts"}

\* C1 as stated: once the invocation has ended, every directory of the list
\* has been passed to create, also those after a directory whose build failed.
C1_EveryDirectoryAttempted ==
    (pc = "exit" /\ builders = 1) => (created = dirs /\ todo = <<>>)

\* C1, amended: a build error ends the invocation.  The directories after the
\* failing one are never passed to create, and the exit status is 1 after a
\* failure and 0 only when every build succeeded.
C1_FailureEndsInvocation ==
    /\ builders = 1 => created \o todo = dirs
    /\ outcome = "failed" =>
          /\ pc = "exit"
          /\ rc = 1
          /\ created # <<>>
          /\ created[Len(created)] = cur
    /\ (pc = "exit" /\ rc = 0) =>
          (err = "" /\ outcome = "ok" /\ created = dirs)

C1_Witness ==
    /\ outcome = "failed"
    /\ dirs = <<"d1", "d2">>
    /\ created = <<"d1">>
    /\ todo = <<"d2">>
    /\ fs["d2"] = snap["d2"]

\* C2 as stated: the R section of create_configuration turns a file of N
\* lines into one of exactly N+3 lines.
C2_ExactlyThreeMoreLines ==
    [][r_configuration =>
         NumLines(fs'[cur].cfg.txt) = NumLines(fs[cur].cfg.txt) + 3]_vars

\* C2, amended: the R section never truncates or changes the content the
\* file holds and appends a newline followed by the three lines R-home,
\* R-include-system-packages (true or false) and R-version, in this order.
\* A file of N newline-ended lines holds N+4 lines afterwards, the line
\* N+1 being empty; a file whose last line had no newline holds N+3.
C2_AppendsNewlineAndThreeLines ==
    [][r_configuration =>
         LET old == fs[cur].cfg.txt
             new == fs'[cur].cfg.txt
             n == NumLines(old)
             m == NumLines(new)
             ended == Len(old) = 0 \/ old[Len(old)] = NL
         IN  /\ IsPrefix(old, new)
             /\ m = n + (IF ended THEN 4 ELSE 3)
             /\ \A i \in 1..n : LineAt(new, i) = LineAt(old, i)
             /\ ended => LineAt(new, n + 1) = <<>>
             /\ LineAt(new, m - 2) = <<"R-home = ", R_HOME>>
             /\ LineAt(new, m - 1) =
                  <<"R-include-system-packages = ",
                    IF opts.system_site \in {"both", "r"}
                    THEN "true" ELSE "false">>
             /\ LineAt(new, m) = <<"R-version = ">> \o rinst.rv]_vars

C2_Witness ==
    /\ opts.convert
    /\ pc = "libdir"
    /\ NumLines(snap[cur].cfg.txt) = 3
    /\ NumLines(fs[cur].cfg.txt) = 7
    /\ IsPrefix(snap[cur].cfg.txt, fs[cur].cfg.txt)

\* C3: a convert build on a directory without pyvenv.cfg fails, leaves the
\* file system as it was before create(env_dir) and never calls the locator.
C3_ConvertWithoutCfgWritesNothing ==
    (opts.convert /\ outcome # "none" /\ pc # "create" /\ ~snap[cur].cfg.ex) =>
        /\ outcome = "failed"
        /\ pc = "exit"
        /\ err = "ValueError: not a Python virtual env"
        /\ fs = snap
        /\ steps = <<>>
        /\ ~ctx.has_r

C3_Witness ==
    /\ err = "ValueError: not a Python virtual env"
    /\ ~snap[cur].root
    /\ fs[cur] = Absent

\* C4: --clear with --convert-to-venvr, or with --upgrade, is rejected
\* before a builder is constructed, create is called or a directory touched.
C4_ConflictRejectedFirst ==
    (pc # "start" /\ opts.clear /\ (opts.convert \/ opts.upgrade)) =>
        /\ pc = "exit"
        /\ err = "ValueError: conflicting options"
        /\ rc = 1
        /\ builders = 0
        /\ created = <<>>
        /\ steps = <<>>
        /\ fs = snap

C4_Witness ==
    /\ pc = "exit"
    /\ opts.clear
    /\ opts.upgrade
    /\ ~opts.convert
    /\ Len(dirs) = 2
    /\ err = "ValueError: conflicting options"

\* C5 as stated: in a convert build no step of the host builder runs.
C5_NoHostStepInConvert ==
    opts.convert => \A i \in 1..Len(steps) : steps[i] \notin HostSteps

\* C5, amended: in a convert build (main() rejects --clear with it) the host
\* builder's create is bypassed: its configuration-create, interpreter setup,
\* pip bootstrap and script generation do not run, and what the environment
\* held is neither cleared nor rewritten by them.  The host builder's
\* directory-ensure step does run, first, and creates the standard
\* directories that are missing; the other directories are not touched.
C5_ConvertRunsOnlyDirectoryEnsure ==
    (opts.convert /\ outcome # "none") =>
        /\ \A i \in 1..Len(steps) :
             steps[i] \notin (HostSteps \ {"ensure_directories"})
        /\ Len(steps) >= 1 => steps[1] = "ensure_directories"
        /\ Ran("r_configuration") => Ran("ensure_directories")
        /\ fs[cur].python = snap[cur].python
        /\ fs[cur].pkgs = snap[cur].pkgs
        /\ fs[cur].rpkgs = snap[cur].rpkgs
        /\ fs[cur].root = snap[cur].root
        /\ snap[cur].dirs => fs[cur].dirs
        /\ IsPrefix(snap[cur].cfg.txt, fs[cur].cfg.txt)
        /\ \A d \in Dirs \ {cur} : fs[d] = snap[d]

C5_Witness ==
    /\ opts.convert
    /\ pc = "done"
    /\ steps = <<"ensure_directories", "get_r_info", "r_configuration",
                 "library_dir", "executables", "activation_script">>
    /\ fs[cur].pkgs

\* C6: after every successful build that composed the activation script, the
\* script holds exactly one definition of deactivate_py and exactly one of
\* deactivate, the primary text first and the resolved template after it.
C6_TwoDeactivationRoutines ==
    (pc = "done" /\ Ran("activation_script")) =>
        LET r == replace_variables(RTemplate, ctx, opts, cur)
        IN  /\ Defs(fs[cur].activate.txt, "deactivate_py") = 1
            /\ Defs(fs[cur].activate.txt, "deactivate") = 1
            /\ IsSuffix(r, fs[cur].activate.txt)

\* C7: the same build run a second time on the directory the first run
\* produced leaves pyvenv.cfg and the activation script as they were.
C7_SecondBuildChangesNothing ==
    (pc = "done" /\ Len(created) = 2 /\ created[1] = created[2]) =>
        /\ fs[cur].cfg = snap[cur].cfg
        /\ fs[cur].activate = snap[cur].activate

\* C8: when the library path is a symbolic link (to a directory, to a file or
\* dangling) or a regular file, the library-directory step fails, changes
\* nothing on the file system, and no later step of the build runs.
C8_LibraryPathConflictFails ==
    [][/\ (pc = "libdir" /\ fs[cur].libpath \in
              {"file", "link_dir", "link_file", "link_dangling"}) =>
            /\ pc' = "exit"
            /\ outcome' = "failed"
            /\ err' \in {"ValueError: unable to create directory",
                         "FileExistsError"}
            /\ fs' = fs
            /\ steps' = steps
       /\ pc = "exit" => (pc' = "exit" /\ fs' = fs)]_vars

C8_Witness ==
    /\ pc = "exit"
    /\ err = "FileExistsError"
    /\ fs[cur].libpath = "link_dangling"
    /\ ~Ran("executables")
    /\ Ran("r_configuration")

\* C9: when the library path is already a plain directory the
\* library-directory step raises nothing and changes nothing on the file
\* system; the build goes on with the executables.
C9_LibraryDirIdempotent ==
    [][(pc = "libdir" /\ fs[cur].libpath = "dir") =>
          /\ fs' = fs
          /\ pc' = "exes"
          /\ outcome' = "running"
          /\ err' = ""]_vars

C9_Witness ==
    /\ pc = "exes"
    /\ snap[cur].libpath = "dir"
    /\ snap[cur].rpkgs
    /\ fs[cur].rpkgs
    /\ Len(created) = 1

\* C10 as stated: the five steps run in order, each once, and each of them,
\* the directory step included, only after the locator supplied the
\* descriptor.
C10_AllStepsAfterLocator ==
    /\ Before("get_r_info", "ensure_directories")
    /\ Before("ensure_directories", "r_configuration")
    /\ Before("r_configuration", "library_dir")
    /\ Before("library_dir", "executables")
    /\ Before("executables", "activation_script")
    /\ \A i \in 1..Len(steps), j \in 1..Len(steps) :
         (i < j /\ steps[i] = "activation_script") =>
             steps[j] # "r_configuration"

\* C10, amended: the directories are ensured before the locator is called;
\* the four steps that follow (R configuration lines, library directory,
\* executables, activation script) start in this order, each only after the
\* earlier ones and after the locator supplied the descriptor.  The last
\* three run at most once; the R lines are appended a second time, after
\* the activation script, only in a create build with the primary runtime's
\* system site-packages, where the host builder rewrites the configuration.
\* Once a step fails no later step runs, and the lines appended stay.
C10_StepsForward ==
    /\ Before("ensure_directories", "get_r_info")
    /\ Before("get_r_info", "r_configuration")
    /\ Before("r_configuration", "library_dir")
    /\ Before("library_dir", "executables")
    /\ Before("executables", "activation_script")
    /\ \A s \in {"ensure_directories", "get_r_info", "library_dir",
                 "executables", "activation_script"} : Cardinality(Idx(s)) <= 1
    /\ Cardinality(Idx("r_configuration")) <=
          (IF ~opts.convert /\ opts.system_site \in {"both", "python"}
           THEN 2 ELSE 1)
    /\ Cardinality(Idx("r_configuration")) = 2 =>
          steps[Len(steps) - 1] = "host_create_configuration"
    /\ outcome = "failed" => pc = "exit"
    /\ (outcome = "failed" /\ Ran("r_configuration")) =>
          /\ fs[cur].cfg.ex
          /\ IsSuffix(RConfigLines(ctx, opts), fs[cur].cfg.txt)

C10_Witness ==
    /\ outcome = "failed"
    /\ steps = <<"ensure_directories", "get_r_info", "r_configuration">>
    /\ NumLines(fs[cur].cfg.txt) = NumLines(snap[cur].cfg.txt) + 4

====
